---------------------------- MODULE Spec2Model ----------------------------
(***************************************************************************)
(* Model of the Chat component of nova-front                              *)
(* (src/src/components/Chat.jsx): the streaming orchestration of          *)
(* handleSendMessage, the handlers handleCancel, handleNewChat and        *)
(* loadSession that share its state, the frame decoding of the read loop  *)
(* and the text normalizer preprocessText; and of the frame decoding of   *)
(* EventSourcePolyfill (src/src/App.jsx).                                 *)
(*                                                                         *)
(* Strings are sequences of characters, each written as a one-character   *)
(* string (a character outside ASCII as its code point, "U+00E9"), so     *)
(* that split, trim, startsWith, slice and the regex rewrites are         *)
(* computed character by character as the JavaScript computes them.       *)
(*                                                                         *)
(* Spec is the whole component.  DecoderSpec is the read loop of one      *)
(* response, with chunks that cut frames, separators and characters.      *)
(* NormSpec is the submission of a typed text, for the properties of      *)
(* preprocessText as a function of its input.                             *)
(*                                                                         *)
(* Scheduling.  JavaScript runs one task at a time.  A handler runs to    *)
(* its end; an async function runs from one await to the next without     *)
(* interruption.  AbortController.abort() rejects the pending fetch() or  *)
(* reader.read() promise of the aborted request synchronously (Fetch      *)
(* standard, "abort the fetch() call"), so the catch and finally blocks   *)
(* of the aborted handleSendMessage run in the microtask checkpoint of    *)
(* the very task that called abort(), after the synchronous part of the   *)
(* aborting handler and before any other event.  An action of this model  *)
(* is one such task together with its microtasks.                         *)
(***************************************************************************)
EXTENDS Integers, Sequences, FiniteSets, TLC

(***************************************************************************)
(* Bounds of the model.                                                    *)
(***************************************************************************)
\* number of requests handleSendMessage may issue in one behaviour
MaxSends == 2
\* number of chunks the transport may deliver in one behaviour
MaxChunks == 2
\* number of pieces of text a typed message is made of
MaxTokens == 3

(***************************************************************************)
(* Characters and strings.                                                 *)
(***************************************************************************)
\* JavaScript \s and String.prototype.trim whitespace (the part that occurs)
IsSpace(c) == c \in {" ", "\n", "\t", "\r"}

Digits == {"0", "1", "2", "3", "4", "5", "6", "7", "8", "9"}

Letters ==
    {"a", "b", "c", "d", "e", "f", "g", "h", "i", "j", "k", "l", "m",
     "n", "o", "p", "q", "r", "s", "t", "u", "v", "w", "x", "y", "z",
     "A", "B", "C", "D", "E", "F", "G", "H", "I", "J", "K", "L", "M",
     "N", "O", "P", "Q", "R", "S", "T", "U", "V", "W", "X", "Y", "Z"}

\* JavaScript \w
IsWord(c) == c \in Letters \union Digits \union {"_"}

\* s.startsWith(p, at - 1): p occurs in s at index at (1-based)
MatchAt(s, at, p) ==
    /\ at >= 1
    /\ at + Len(p) - 1 <= Len(s)
    /\ \A k \in 1..Len(p) : s[at + k - 1] = p[k]

StartsWith(s, p) == MatchAt(s, 1, p)

\* s.slice(n)
Slice(s, n) == IF n >= Len(s) THEN <<>> ELSE SubSeq(s, n + 1, Len(s))

\* the least element of a non-empty set of indexes
Least(S) == CHOOSE x \in S : \A y \in S : x <= y

\* the text from index i on
Rest(s, i) == SubSeq(s, i, Len(s))

\* index of the first occurrence of p in s at or after at, or 0
FindFrom(s, at, p) ==
    LET js == {j \in at..(Len(s) - Len(p) + 1) : MatchAt(s, j, p)} IN
    IF js = {} THEN 0 ELSE Least(js)

\* where a greedy run of characters that starts at index i ends: at the
\* first of the indexes stops, which are the characters at or after i that
\* the run cannot take, or after the text
RunEnd(s, i, stops) ==
    IF stops # {} THEN Least(stops)
    ELSE IF i > Len(s) THEN i
    ELSE Len(s) + 1

\* index of the first character at or after i that is not whitespace
SkipSpaces(s, i) == RunEnd(s, i, {j \in i..Len(s) : ~IsSpace(s[j])})

TrimStart(s) == Rest(s, SkipSpaces(s, 1))

TrimEnd(s) ==
    LET ds == {d \in 0..(Len(s) - 1) : ~IsSpace(s[Len(s) - d])} IN
    IF ds = {} THEN <<>> ELSE SubSeq(s, 1, Len(s) - Least(ds))

\* String.prototype.trim
Trim(s) == TrimEnd(TrimStart(s))

NL2 == <<"\n", "\n">>

\* s.split("\n\n"): the pieces between the non-overlapping occurrences of
\* the separator, found left to right
RECURSIVE SplitFrom(_, _)
SplitFrom(s, at) ==
    LET j == FindFrom(s, at, NL2) IN
    IF j = 0 THEN <<Rest(s, at)>>
    ELSE <<SubSeq(s, at, j - 1)>> \o SplitFrom(s, j + 2)

SplitFrames(s) == SplitFrom(s, 1)

(***************************************************************************)
(* TextDecoder (lines 269, 277).  A chunk is a sequence of bytes: an ASCII *)
(* byte is written as its character, another byte as its two hexadecimal   *)
(* digits.  Of the multi-byte sequences of UTF-8 the model has the         *)
(* two-byte ones.                                                          *)
(***************************************************************************)
\* lead bytes of two-byte sequences and continuation bytes
LeadBytes == {"C3"}
ContinuationBytes == {"A9"}

\* the character a two-byte sequence encodes: U+00E9 for C3 A9
Utf8Char(lead, cont) == "U+00E9"

\* what the decoder emits for a malformed sequence
ReplacementChar == "U+FFFD"

\* the characters of bytes from index i on; a lead byte at the end of the
\* input emits nothing
RECURSIVE DecodeFrom(_, _)
DecodeFrom(bytes, i) ==
    LET js == {j \in i..Len(bytes) :
                   bytes[j] \in LeadBytes \union ContinuationBytes} IN
    IF js = {} THEN Rest(bytes, i)
    ELSE LET j == Least(js) IN
         SubSeq(bytes, i, j - 1) \o
         (IF bytes[j] \in ContinuationBytes
          THEN <<ReplacementChar>> \o DecodeFrom(bytes, j + 1)
          ELSE IF j = Len(bytes) THEN <<>>
          ELSE IF bytes[j + 1] \in ContinuationBytes
          THEN <<Utf8Char(bytes[j], bytes[j + 1])>> \o DecodeFrom(bytes, j + 2)
          ELSE <<ReplacementChar>> \o DecodeFrom(bytes, j + 1))

EndsInLead(bytes) == bytes # <<>> /\ bytes[Len(bytes)] \in LeadBytes

\* a decoder that decodes each chunk on its own: decode(value)
decode_NoStream(pending, value) ==
    [text |-> DecodeFrom(value, 1) \o
                  (IF EndsInLead(value) THEN <<ReplacementChar>> ELSE <<>>),
     pending |-> <<>>]

\* decoder.decode(value, { stream: true }) (line 277): the bytes of an
\* incomplete sequence at the end of a chunk are kept for the next call
decode(pending, value) ==
    [text |-> DecodeFrom(pending \o value, 1),
     pending |-> IF EndsInLead(pending \o value)
                 THEN SubSeq(pending \o value, Len(pending \o value),
                             Len(pending \o value))
                 ELSE <<>>]


(***************************************************************************)
(* preprocessText, the text normalizer (Chat.jsx lines 7-113).  Each       *)
(* String.prototype.replace(/re/g, ...) is a left-to-right scan of the     *)
(* text as it was before the step: from index i the leftmost match is      *)
(* found, the text before it is copied, the replacement is emitted and the *)
(* scan resumes after the match; with no match left the rest is copied.    *)
(***************************************************************************)
\* \b at the gap before index i (between s[i-1] and s[i])
IsBoundary(s, i) ==
    LET before == i > 1 /\ i - 1 <= Len(s) /\ IsWord(s[i - 1])
        after  == i >= 1 /\ i <= Len(s) /\ IsWord(s[i])
    IN  before # after

\* index of the first character at or after i that is not a digit
SkipDigits(s, i) == RunEnd(s, i, {j \in i..Len(s) : s[j] \notin Digits})

\* what . does not match
IsLineTerminator(c) == c \in {"\n", "\r"}

\* index of the line terminator that ends the line of index i, or Len(s) + 1
LineEnd(s, i) == RunEnd(s, i, {j \in i..Len(s) : IsLineTerminator(s[j])})

\* ^ with the m flag, at index i
IsLineStart(s, i) == i = 1 \/ (i - 1 <= Len(s) /\ IsLineTerminator(s[i - 1]))

\* Line 11, /\b(\w)\s+(\w)\s+(\w)\b/: the indexes <<i, j, k>> of the three
\* word characters of a match that starts at i, or <<>>.
DefragMatch(s, i) ==
    IF ~(i <= Len(s) /\ IsWord(s[i]) /\ IsBoundary(s, i)) THEN <<>>
    ELSE LET j == SkipSpaces(s, i + 1) IN
         IF ~(j > i + 1 /\ j <= Len(s) /\ IsWord(s[j])) THEN <<>>
         ELSE LET k == SkipSpaces(s, j + 1) IN
              IF k > j + 1 /\ k <= Len(s) /\ IsWord(s[k]) /\ IsBoundary(s, k + 1)
              THEN <<i, j, k>>
              ELSE <<>>

RECURSIVE DefragFrom(_, _)
DefragFrom(s, i) ==
    LET js == {j \in i..Len(s) : DefragMatch(s, j) # <<>>} IN
    IF js = {} THEN Rest(s, i)
    ELSE LET m == DefragMatch(s, Least(js)) IN
         SubSeq(s, i, m[1] - 1) \o <<s[m[1]], s[m[2]], s[m[3]]>>
             \o DefragFrom(s, m[3] + 1)

\* text.replace(/\b(\w)\s+(\w)\s+(\w)\b/g, "$1$2$3")
Defragment(s) == DefragFrom(s, 1)

\* Line 12, /,\s*(then|so)\b/ at index i: <<i, start of the word, its
\* end + 1>>, or <<>>
CommaWordMatch(s, i) ==
    IF s[i] # "," THEN <<>>
    ELSE LET j == SkipSpaces(s, i + 1) IN
         IF MatchAt(s, j, <<"t", "h", "e", "n">>) /\ IsBoundary(s, j + 4)
         THEN <<i, j, j + 4>>
         ELSE IF MatchAt(s, j, <<"s", "o">>) /\ IsBoundary(s, j + 2)
         THEN <<i, j, j + 2>>
         ELSE <<>>

RECURSIVE DropCommaFrom(_, _)
DropCommaFrom(s, i) ==
    LET js == {j \in i..Len(s) : CommaWordMatch(s, j) # <<>>} IN
    IF js = {} THEN Rest(s, i)
    ELSE LET m == CommaWordMatch(s, Least(js)) IN
         SubSeq(s, i, m[1] - 1) \o SubSeq(s, m[2], m[3] - 1)
             \o DropCommaFrom(s, m[3])

\* text.replace(/,\s*(then|so)\b/g, "$1")
DropComma(s) == DropCommaFrom(s, 1)

\* Line 15: text.replace(/\r\n|\r/g, "\n")
RECURSIVE NormalizeFrom(_, _)
NormalizeFrom(s, i) ==
    LET j == FindFrom(s, i, <<"\r">>) IN
    IF j = 0 THEN Rest(s, i)
    ELSE SubSeq(s, i, j - 1) \o <<"\n">>
             \o NormalizeFrom(s, IF MatchAt(s, j + 1, <<"\n">>) THEN j + 2 ELSE j + 1)

NormalizeLineEndings(s) == NormalizeFrom(s, 1)

DigitChars == <<"0", "1", "2", "3", "4", "5", "6", "7", "8", "9">>

\* String(n) of a natural number
RECURSIVE DecimalOf(_)
DecimalOf(n) ==
    IF n < 10 THEN <<DigitChars[n + 1]>>
    ELSE DecimalOf(n \div 10) \o <<DigitChars[(n % 10) + 1]>>

LatexTokenHead == <<"_", "_", "L", "A", "T", "E", "X", "_">>

\* `__LATEX_${n}__`
LatexToken(n) == LatexTokenHead \o DecimalOf(n) \o <<"_", "_">>

\* __LATEX_\d+__ at index p: the index after the token, or 0
LatexTokenEnd(s, p) ==
    IF ~MatchAt(s, p, LatexTokenHead) THEN 0
    ELSE LET d == p + Len(LatexTokenHead)
             q == SkipDigits(s, d)
         IN  IF q > d /\ MatchAt(s, q, <<"_", "_">>) THEN q + 2 ELSE 0

\* (\$\$[\s\S]*?\$\$|\$[^\$]*?\$) at index i: the index after the match,
\* or 0.  The display form is tried first; its body ends at the first "$$".
\* The inline form ends at the next "$".
LatexEnd(s, i) ==
    IF ~(i <= Len(s) /\ s[i] = "$") THEN 0
    ELSE LET d == IF MatchAt(s, i, <<"$", "$">>)
                  THEN FindFrom(s, i + 2, <<"$", "$">>)
                  ELSE 0
             e == FindFrom(s, i + 1, <<"$">>)
         IN  IF d # 0 THEN d + 2
             ELSE IF e # 0 THEN e + 1
             ELSE 0

\* the result of a protecting step: the text and the list latexPlaceholders
Protected(text, ph) == [text |-> text, latexPlaceholders |-> ph]

RECURSIVE ProtectLatexFrom(_, _, _, _)
ProtectLatexFrom(s, i, out, ph) ==
    LET j == FindFrom(s, i, <<"$">>)
        e == LatexEnd(s, j)
    IN  IF j = 0 \/ e = 0 THEN Protected(out \o Rest(s, i), ph)
        ELSE ProtectLatexFrom(s, e,
                 out \o SubSeq(s, i, j - 1) \o LatexToken(Len(ph)),
                 Append(ph, SubSeq(s, j, e - 1)))

\* Lines 18-22: every equation becomes a placeholder token
ProtectLatex(s) == ProtectLatexFrom(s, 1, <<>>, <<>>)

\* Line 25, /=\s*([^\$]*?)\$\$/ at index i: <<start of the group, index of
\* the "$$">>, or <<>>.  The group cannot hold a "$", so the "$$" is at the
\* first "$" after the "=".
MalformedMatch(s, i) ==
    IF s[i] # "=" THEN <<>>
    ELSE LET d == FindFrom(s, i + 1, <<"$">>) IN
         IF d # 0 /\ MatchAt(s, d, <<"$", "$">>)
         THEN <<SkipSpaces(s, i + 1), d>>
         ELSE <<>>

RECURSIVE ProtectMalformedFrom(_, _, _, _)
ProtectMalformedFrom(s, i, out, ph) ==
    LET js == {j \in i..Len(s) : MalformedMatch(s, j) # <<>>} IN
    IF js = {} THEN Protected(out \o Rest(s, i), ph)
    ELSE LET j == Least(js)
             m == MalformedMatch(s, j)
         IN  ProtectMalformedFrom(s, m[2] + 2,
                 out \o SubSeq(s, i, j - 1) \o <<"=", " ">> \o LatexToken(Len(ph)),
                 Append(ph, <<"$">> \o SubSeq(s, m[1], m[2] - 1) \o <<"$">>))

\* Lines 25-28
ProtectMalformed(p) ==
    ProtectMalformedFrom(p.text, 1, <<>>, p.latexPlaceholders)

\* (frac|int|pi|psi|le|ge)
LatexCommands ==
    { <<"f", "r", "a", "c">>, <<"i", "n", "t">>, <<"p", "i">>,
      <<"p", "s", "i">>, <<"l", "e">>, <<"g", "e">> }

\* index of the first "{" or "}" at or after i, or Len(s) + 1
SkipNoBrace(s, i) == RunEnd(s, i, {j \in i..Len(s) : s[j] \in {"{", "}"}})

\* (?:{[^{}]*})? at index p: the index after it
BraceEnd(s, p) ==
    IF p <= Len(s) /\ s[p] = "{"
    THEN LET q == SkipNoBrace(s, p + 1) IN
         IF q <= Len(s) /\ s[q] = "}" THEN q + 1 ELSE p
    ELSE p

\* Line 32 at index i: the index after the match, or 0
FragmentEnd(s, i) ==
    IF s[i] # "\\" THEN 0
    ELSE LET ws == {w \in LatexCommands :
                       MatchAt(s, i + 1, w) /\ IsBoundary(s, i + 1 + Len(w))}
         IN  IF ws = {} THEN 0
             ELSE LET w == CHOOSE x \in ws : TRUE
                  IN  BraceEnd(s, BraceEnd(s, i + 1 + Len(w)))

RECURSIVE ProtectFragmentsFrom(_, _, _, _)
ProtectFragmentsFrom(s, i, out, ph) ==
    LET js == {j \in i..Len(s) : FragmentEnd(s, j) # 0} IN
    IF js = {} THEN Protected(out \o Rest(s, i), ph)
    ELSE LET j == Least(js)
             e == FragmentEnd(s, j)
         IN  ProtectFragmentsFrom(s, e,
                 out \o SubSeq(s, i, j - 1) \o LatexToken(Len(ph)),
                 Append(ph, <<"$">> \o SubSeq(s, j, e - 1) \o <<"$">>))

\* Lines 31-37
ProtectFragments(p) ==
    ProtectFragmentsFrom(p.text, 1, <<>>, p.latexPlaceholders)

\* "\frac{"
FracOpen == <<"\\", "f", "r", "a", "c", "{">>

\* Line 41, /\b(u|du|dx)\s*\\frac\{([^}]*)\}\{([^}]*)\}/ at index i:
\* <<i, end of the variable + 1, start of the numerator, its "}", the "}" of
\* the denominator>>, or <<>>
FracMatch(s, i) ==
    LET vs == {v \in {<<"u">>, <<"d", "u">>, <<"d", "x">>} : MatchAt(s, i, v)} IN
    IF ~IsBoundary(s, i) \/ vs = {} THEN <<>>
    ELSE LET v == CHOOSE x \in vs : TRUE
             q == SkipSpaces(s, i + Len(v))
             a == q + Len(FracOpen)
             b == FindFrom(s, a, <<"}">>)
             c == IF b # 0 /\ MatchAt(s, b + 1, <<"{">>)
                  THEN FindFrom(s, b + 2, <<"}">>)
                  ELSE 0
         IN  IF MatchAt(s, q, FracOpen) /\ c # 0
             THEN <<i, i + Len(v), a, b, c>>
             ELSE <<>>

RECURSIVE ProtectFracFrom(_, _, _, _)
ProtectFracFrom(s, i, out, ph) ==
    LET js == {j \in i..Len(s) : FracMatch(s, j) # <<>>} IN
    IF js = {} THEN Protected(out \o Rest(s, i), ph)
    ELSE LET m == FracMatch(s, Least(js)) IN
         ProtectFracFrom(s, m[5] + 1,
             out \o SubSeq(s, i, m[1] - 1) \o LatexToken(Len(ph)),
             Append(ph, <<"$">> \o SubSeq(s, m[1], m[2] - 1) \o <<" ">>
                        \o FracOpen \o SubSeq(s, m[3], m[4] - 1)
                        \o <<"}", "{">> \o SubSeq(s, m[4] + 2, m[5] - 1)
                        \o <<"}", "$">>))

\* Lines 40-46
ProtectFrac(p) == ProtectFracFrom(p.text, 1, <<>>, p.latexPlaceholders)

\* Line 50, /(\*\*[^\*]+?)(:|\?)\s*(\*\*)/ at index i: <<i, index of the ":"
\* or "?", index of the closing "**">>, or <<>>.  The lazy [^\*]+? stops at the
\* first ":" or "?" that whitespace and "**" follow.
BoldLabelMatch(s, i) ==
    IF ~MatchAt(s, i, <<"*", "*">>) THEN <<>>
    ELSE LET ps == {p \in (i + 3)..Len(s) :
                       /\ s[p] \in {":", "?"}
                       /\ \A k \in (i + 2)..(p - 1) : s[k] # "*"
                       /\ MatchAt(s, SkipSpaces(s, p + 1), <<"*", "*">>)}
         IN  IF ps = {} THEN <<>>
             ELSE LET p == CHOOSE x \in ps : \A y \in ps : x <= y
                  IN  <<i, p, SkipSpaces(s, p + 1)>>

RECURSIVE TightenBoldFrom(_, _)
TightenBoldFrom(s, i) ==
    LET js == {j \in i..Len(s) : BoldLabelMatch(s, j) # <<>>} IN
    IF js = {} THEN Rest(s, i)
    ELSE LET m == BoldLabelMatch(s, Least(js)) IN
         SubSeq(s, i, m[2]) \o <<"*", "*">> \o TightenBoldFrom(s, m[3] + 2)

\* Lines 49-52
TightenBold(s) == TightenBoldFrom(s, 1)

\* \d+\.\s at index p
NumberedItemAt(s, p) ==
    LET q == SkipDigits(s, p) IN
    /\ q > p
    /\ q + 1 <= Len(s)
    /\ s[q] = "."
    /\ IsSpace(s[q + 1])

\* the lookahead of line 55, \n|[*+]\s|\d+\.\s|#, at index p
KeepBreak1(s, p) ==
    /\ p <= Len(s)
    /\ \/ s[p] = "\n"
       \/ s[p] \in {"*", "+"} /\ p + 1 <= Len(s) /\ IsSpace(s[p + 1])
       \/ NumberedItemAt(s, p)
       \/ s[p] = "#"

\* ([^\n])\n at index i
SingleBreakAt(s, i) == s[i] # "\n" /\ i + 1 <= Len(s) /\ s[i + 1] = "\n"

RECURSIVE SoftJoin1From(_, _)
SoftJoin1From(s, i) ==
    LET js == {j \in i..Len(s) : SingleBreakAt(s, j) /\ ~KeepBreak1(s, j + 2)} IN
    IF js = {} THEN Rest(s, i)
    ELSE LET j == Least(js) IN
         SubSeq(s, i, j) \o <<" ">> \o SoftJoin1From(s, j + 2)

\* Lines 54-57: text.replace(/([^\n])\n(?!\n|[*+]\s|\d+\.\s|#)/g, "$1 ")
SoftJoin1(s) == SoftJoin1From(s, 1)

\* Line 61 at index i: the index after the match, or 0
ColonLatexEnd(s, i) ==
    IF s[i] = ":" THEN LatexEnd(s, SkipSpaces(s, i + 1)) ELSE 0

RECURSIVE BreakBeforeLatexFrom(_, _)
BreakBeforeLatexFrom(s, i) ==
    LET js == {j \in i..Len(s) : ColonLatexEnd(s, j) # 0} IN
    IF js = {} THEN Rest(s, i)
    ELSE LET j == Least(js)
             e == ColonLatexEnd(s, j)
         IN  SubSeq(s, i, j) \o <<"\n">> \o SubSeq(s, SkipSpaces(s, j + 1), e - 1)
                 \o BreakBeforeLatexFrom(s, e)

\* Lines 60-63: text.replace(/(:)\s*(\$\$[\s\S]*?\$\$|\$[^\$]*?\$)/g, "$1\n$2")
BreakBeforeLatex(s) == BreakBeforeLatexFrom(s, 1)

\* Line 67, /(https?:\/\/[^\s<]*?)\s*([.:])\s*/ at index i: <<i, end of the
\* url, index of the "." or ":">>, or <<>>.  The lazy [^\s<]*? stops at the first
\* place where whitespace and then "." or ":" follow.
UrlMatch(s, i) ==
    LET h == IF MatchAt(s, i, <<"h", "t", "t", "p", "s", ":", "/", "/">>) THEN i + 8
             ELSE IF MatchAt(s, i, <<"h", "t", "t", "p", ":", "/", "/">>) THEN i + 7
             ELSE 0
        es == {e \in h..Len(s) :
                  /\ \A k \in h..(e - 1) : ~IsSpace(s[k]) /\ s[k] # "<"
                  /\ SkipSpaces(s, e) <= Len(s)
                  /\ s[SkipSpaces(s, e)] \in {".", ":"}}
    IN  IF h = 0 \/ es = {} THEN <<>>
        ELSE LET e == CHOOSE x \in es : \A y \in es : x <= y
             IN  <<i, e - 1, SkipSpaces(s, e)>>

RECURSIVE TightenUrlFrom(_, _)
TightenUrlFrom(s, i) ==
    LET js == {j \in i..Len(s) : UrlMatch(s, j) # <<>>} IN
    IF js = {} THEN Rest(s, i)
    ELSE LET m == UrlMatch(s, Least(js)) IN
         SubSeq(s, i, m[2]) \o <<s[m[3]]>>
             \o TightenUrlFrom(s, SkipSpaces(s, m[3] + 1))

\* Lines 66-69
TightenUrl(s) == TightenUrlFrom(s, 1)

\* index after the run of "\n" that starts at i
SkipNewlines(s, i) == RunEnd(s, i, {j \in i..Len(s) : s[j] # "\n"})

RECURSIVE CollapseFrom(_, _)
CollapseFrom(s, i) ==
    LET j == FindFrom(s, i, <<"\n", "\n", "\n">>) IN
    IF j = 0 THEN Rest(s, i)
    ELSE SubSeq(s, i, j - 1) \o NL2 \o CollapseFrom(s, SkipNewlines(s, j))

\* Lines 72 and 110: text.replace(/\n{3,}/g, "\n\n")
CollapseBlankLines(s) == CollapseFrom(s, 1)

Connectives ==
    { <<"L", "e", "t">>, <<"W", "h", "e", "n">>,
      <<"T", "h", "e", "r", "e", "f", "o", "r", "e">>,
      <<"I", "f">>, <<"T", "h", "e", "n">> }

\* the lookahead of line 76 at index p
KeepBreak2(s, p) ==
    \/ /\ p <= Len(s)
       /\ \/ s[p] = "\n"
          \/ s[p] \in {"-", "*", "+"}
          \/ NumberedItemAt(s, p)
          \/ s[p] = "#"
          \/ s[p] \in {".", ",", ":", ";"} /\ p = Len(s)
    \/ LatexTokenEnd(s, SkipSpaces(s, p)) # 0
    \/ /\ IsBoundary(s, p)
       /\ \E w \in Connectives :
              MatchAt(s, p, w) /\ IsBoundary(s, p + Len(w))

RECURSIVE SoftJoin2From(_, _)
SoftJoin2From(s, i) ==
    LET js == {j \in i..Len(s) : SingleBreakAt(s, j) /\ ~KeepBreak2(s, j + 2)} IN
    IF js = {} THEN Rest(s, i)
    ELSE LET j == Least(js) IN
         SubSeq(s, i, j) \o <<" ">> \o SoftJoin2From(s, j + 2)

\* Lines 75-78
SoftJoin2(s) == SoftJoin2From(s, 1)

RECURSIVE PadHeadingsFrom(_, _)
PadHeadingsFrom(s, i) ==
    LET js == {j \in i..Len(s) : IsLineStart(s, j) /\ s[j] = "#"} IN
    IF js = {} THEN Rest(s, i)
    ELSE LET j == Least(js)
             e == LineEnd(s, j)
         IN  SubSeq(s, i, j - 1) \o NL2 \o SubSeq(s, j, e - 1) \o NL2
                 \o PadHeadingsFrom(s, e)

\* Line 85: text.replace(/^(#+.*)$/gm, "\n\n$1\n\n")
PadHeadings(s) == PadHeadingsFrom(s, 1)

\* Line 87, /([-*+]\s.*)\n\n(?![-*+\d])/ at index i: the index of the "\n\n",
\* or 0
ListItemEnd(s, i) ==
    IF ~(s[i] \in {"-", "*", "+"} /\ i + 1 <= Len(s) /\ IsSpace(s[i + 1])) THEN 0
    ELSE LET e == LineEnd(s, i + 2) IN
         IF /\ MatchAt(s, e, NL2)
            /\ ~(e + 2 <= Len(s) /\ s[e + 2] \in {"-", "*", "+"} \union Digits)
         THEN e
         ELSE 0

RECURSIVE PadListsFrom(_, _)
PadListsFrom(s, i) ==
    LET js == {j \in i..Len(s) : ListItemEnd(s, j) # 0} IN
    IF js = {} THEN Rest(s, i)
    ELSE LET e == ListItemEnd(s, Least(js)) IN
         SubSeq(s, i, e - 1) \o <<"\n", "\n", "\n">> \o PadListsFrom(s, e + 2)

\* Line 87
PadLists(s) == PadListsFrom(s, 1)

\* "Dividing by $A e^{i(kx " and " t)}$:" around the two spellings of lines
\* 91 and 95
DividingHead ==
    <<"D", "i", "v", "i", "d", "i", "n", "g", " ", "b", "y", " ", "$", "A", " ",
      "e", "^", "{", "i", "(", "k", "x", " ">>
DividingTail == <<"\\", "o", "m", "e", "g", "a", " ", "t", ")", "}", "$", ":">>

\* the pattern of line 91
DividingNoMinus == DividingHead \o DividingTail

\* the pattern of line 95
DividingMinus == DividingHead \o <<"-", " ">> \o DividingTail

\* the replacement of lines 92 and 96
DividingBold == <<"*", "*">> \o DividingMinus \o <<"*", "*">>

RECURSIVE ReplaceAllFrom(_, _, _, _)
ReplaceAllFrom(s, i, pat, rep) ==
    LET j == FindFrom(s, i, pat) IN
    IF j = 0 THEN Rest(s, i)
    ELSE SubSeq(s, i, j - 1) \o rep \o ReplaceAllFrom(s, j + Len(pat), pat, rep)

\* Lines 90-97
BoldDividing(s) ==
    ReplaceAllFrom(ReplaceAllFrom(s, 1, DividingNoMinus, DividingBold),
                   1, DividingMinus, DividingBold)

\* "undefined": String(latexPlaceholders[index]) for an index that is not an
\* index of the list
Undefined == <<"u", "n", "d", "e", "f", "i", "n", "e", "d">>

\* latexPlaceholders[index] for the digits of a token: the property whose
\* name is that very string
PlaceholderAt(ph, digits) ==
    LET ks == {k \in 1..Len(ph) : DecimalOf(k - 1) = digits} IN
    IF ks = {} THEN Undefined ELSE ph[CHOOSE k \in ks : TRUE]

RECURSIVE RestoreFrom(_, _, _)
RestoreFrom(s, i, ph) ==
    LET js == {j \in i..Len(s) : LatexTokenEnd(s, j) # 0} IN
    IF js = {} THEN Rest(s, i)
    ELSE LET j == Least(js)
             e == LatexTokenEnd(s, j)
         IN  SubSeq(s, i, j - 1)
                 \o PlaceholderAt(ph, SubSeq(s, j + Len(LatexTokenHead), e - 3))
                 \o RestoreFrom(s, e, ph)

\* Line 100
Restore(s, ph) == RestoreFrom(s, 1, ph)

\* \$[^\$]+\$ at index i: the index of the closing "$", or 0
InlineEnd(s, i) ==
    IF ~(i <= Len(s) /\ s[i] = "$") THEN 0
    ELSE LET j == FindFrom(s, i + 1, <<"$">>) IN
         IF j >= i + 2 THEN j ELSE 0

\* Line 103 at index i: the index of the character matched after the
\* equation, or 0
InlineThenChar(s, i) ==
    LET j == InlineEnd(s, i)
        q == SkipSpaces(s, j + 1)
    IN  IF j # 0 /\ q <= Len(s) /\ s[q] # "$" THEN q ELSE 0

RECURSIVE SpaceAfterFrom(_, _)
SpaceAfterFrom(s, i) ==
    LET js == {j \in i..Len(s) : InlineThenChar(s, j) # 0} IN
    IF js = {} THEN Rest(s, i)
    ELSE LET j == Least(js)
             q == InlineThenChar(s, j)
         IN  SubSeq(s, i, InlineEnd(s, j)) \o <<" ", s[q]>>
                 \o SpaceAfterFrom(s, q + 1)

\* Line 103: text.replace(/(\$[^\$]+\$)\s*([^\s\$])/g, "$1 $2")
SpaceAfter(s) == SpaceAfterFrom(s, 1)

\* Line 104 at index i: the index of the closing "$", or 0
CharThenInline(s, i) ==
    IF ~IsSpace(s[i]) /\ s[i] # "$"
    THEN InlineEnd(s, SkipSpaces(s, i + 1))
    ELSE 0

RECURSIVE SpaceBeforeFrom(_, _)
SpaceBeforeFrom(s, i) ==
    LET js == {j \in i..Len(s) : CharThenInline(s, j) # 0} IN
    IF js = {} THEN Rest(s, i)
    ELSE LET j == Least(js) IN
         SubSeq(s, i, j) \o <<" ">>
             \o SubSeq(s, SkipSpaces(s, j + 1), CharThenInline(s, j))
             \o SpaceBeforeFrom(s, CharThenInline(s, j) + 1)

\* Line 104: text.replace(/([^\s\$])\s*(\$[^\$]+\$)/g, "$1 $2")
SpaceBefore(s) == SpaceBeforeFrom(s, 1)

\* /^(\$\$.*\$\$)$/m at index i
DisplayLineAt(s, i) ==
    LET e == LineEnd(s, i) IN
    /\ IsLineStart(s, i)
    /\ e - i >= 4
    /\ MatchAt(s, i, <<"$", "$">>)
    /\ MatchAt(s, e - 2, <<"$", "$">>)

RECURSIVE PadDisplayFrom(_, _)
PadDisplayFrom(s, i) ==
    LET js == {j \in i..Len(s) : DisplayLineAt(s, j)} IN
    IF js = {} THEN Rest(s, i)
    ELSE LET j == Least(js)
             e == LineEnd(s, j)
         IN  SubSeq(s, i, j - 1) \o <<"\n">> \o SubSeq(s, j, e - 1) \o <<"\n">>
                 \o PadDisplayFrom(s, e)

\* Line 107: text.replace(/^(\$\$.*\$\$)$/gm, "\n$1\n")
PadDisplay(s) == PadDisplayFrom(s, 1)

\* Lines 11-15: the clean-up before the equations are protected
CleanUp(text) == NormalizeLineEndings(DropComma(Defragment(text)))

\* Lines 18-46: the four protecting steps and the list they fill
Protect(text) ==
    ProtectFrac(ProtectFragments(ProtectMalformed(ProtectLatex(text))))

\* Lines 49-81: the rewrites of the text that holds the placeholder tokens
Merge(text) ==
    Trim(SoftJoin2(CollapseBlankLines(TightenUrl(BreakBeforeLatex(
        SoftJoin1(TightenBold(text)))))))

\* Lines 49-100, for the result p of the protecting steps
Restored(p) ==
    Restore(BoldDividing(PadLists(PadHeadings(Merge(p.text)))),
            p.latexPlaceholders)

\* Lines 49-107: the steps without the collapse of line 110
Finish_NoCollapse(p) == PadDisplay(SpaceBefore(SpaceAfter(Restored(p))))

\* Lines 49-110, for the result p of the protecting steps
Finish(p) ==
    CollapseBlankLines(PadDisplay(SpaceBefore(SpaceAfter(Restored(p)))))

\* preprocessText(text), lines 7-113
preprocessText(text) ==
    IF text = <<>> THEN <<>> ELSE Finish(Protect(CleanUp(text)))


(***************************************************************************)
(* Literals of the source.                                                 *)
(***************************************************************************)
\* "data:" (line 285)
DataMarker == <<"d", "a", "t", "a", ":">>

\* "[DONE]" (line 288)
DoneToken == <<"[", "D", "O", "N", "E", "]">>

\* "\n\n[Generation cancelled]" (line 348)
CancelMarker ==
    <<"\n", "\n", "[", "G", "e", "n", "e", "r", "a", "t", "i", "o", "n", " ",
      "c", "a", "n", "c", "e", "l", "l", "e", "d", "]">>

\* "## Error\n\n" (line 321)
ErrorHead == <<"#", "#", " ", "E", "r", "r", "o", "r", "\n", "\n">>

NoSession == [kind |-> "none", n |-> 0]

(***************************************************************************)
(* Inputs: what the user types, what the backend stores and what the       *)
(* transport delivers.                                                     *)
(***************************************************************************)
\* values typed into the textarea: whitespace only, spaced-out letters
InputTexts == { <<" ", "\n">>, <<"o", " ", "k", " ", "s">> }

\* pieces of the texts given to the normalizer: a sentence with a
\* spaced-out word and a comma before "then"; two inline equations, the
\* second with spaces inside; an opening LaTeX command and a closing brace; a
\* text of the shape of a placeholder token; a line break; a heading; a
\* variable followed by a fraction
SpacedSentence ==
    <<"W", " ", "h", " ", "e", " ", "n", " ", "x", " ", "=", " ",
      "1", " ", ",", " ", "t", "h", "e", "n", " ", "y", " ", "=",
      " ", "2">>

NormTokens ==
    { SpacedSentence,
      <<"$", "x", "^", "2", "$">>,
      <<"$", "a", " ", "b", " ", "c", "$">>,
      <<"\\", "f", "r", "a", "c", "{">>,
      <<"}">>,
      <<"_", "_", "L", "A", "T", "E", "X", "_", "0", "_", "_">>,
      <<"\n">>,
      <<"#", " ", "h">>,
      <<"u", " ", "\\", "f", "r", "a", "c", "{", "a", "}", "{", "b", "}">> }

\* the texts made of at most n pieces
RECURSIVE TextsOf(_)
TextsOf(n) ==
    IF n = 0 THEN {<<>>}
    ELSE TextsOf(n - 1)
             \union {text \o token : text \in TextsOf(n - 1), token \in NormTokens}

TypedTexts == TextsOf(MaxTokens)

\* GET /sessions/{id}: the stored conversations
StoredSessions == {1, 2}

StoredMessages(id) ==
    IF id = 1
    THEN << [role |-> "user", content |-> <<"q">>, by |-> 0],
            [role |-> "assistant", content |-> <<"o", "l", "d">>, by |-> 0] >>
    ELSE << >>

\* chunks of a response body: a whole frame; a comment frame, the
\* termination token and a frame with an empty payload; a frame that the
\* chunk does not end
Chunks ==
    { <<"d", "a", "t", "a", ":", " ", "H", "i", "\n", "\n">>,
      <<":", "k", "\n", "\n",
        "d", "a", "t", "a", ":", " ", "[", "D", "O", "N", "E", "]", "\n", "\n",
        "d", "a", "t", "a", ":", "\n", "\n">>,
      <<"d", "a", "t", "a", ":", " ", "a">> }

\* the two frames of the scenario "Hello world", each a chunk of its own
HelloFrame == <<"d", "a", "t", "a", ":", " ", "H", "e", "l", "l", "o", "\n", "\n">>
WorldFrame ==
    <<"d", "a", "t", "a", ":", " ", " ", "w", "o", "r", "l", "d", "\n", "\n">>

\* more chunks for the read loop alone: the two frames of the scenario; a
\* chunk that ends inside a frame
\* and inside a two-byte character, the frame with two spaces after the
\* marker; the rest of that character and of that frame, and a frame with
\* a space at its end and the first half of its separator; the second
\* half of a separator and a whole frame
DecoderChunks ==
    Chunks \union {HelloFrame, WorldFrame} \union
    { <<"d", "a", "t", "a", ":", " ", " ", "a", "C3">>,
      <<"A9", "\n", "\n",
        "d", "a", "t", "a", ":", " ", "b", "C3", "A9", " ", "\n">>,
      <<"\n", "d", "a", "t", "a", ":", " ", "c", "\n", "\n">> }

\* err.message of the errors a send can fail with: a non-OK status
\* (line 256), a rejected fetch, a failed read
HttpError == <<"R", "e", "q", "u", "e", "s", "t", " ", "f", "a", "i", "l", "e",
               "d", ":", " ", "5", "0", "0">>
NetworkError == <<"F", "a", "i", "l", "e", "d", " ", "t", "o", " ", "f", "e",
                  "t", "c", "h">>
ReadFailure == <<"n", "e", "t", "w", "o", "r", "k", " ", "e", "r", "r", "o", "r">>

\* err.name and err.message of the rejection that abort() causes
AbortErrorName == "AbortError"
AbortText == <<"a", "b", "o", "r", "t", "e", "d">>

(***************************************************************************)
(* State of one Chat instance (lines 116-123).                             *)
(*   message             the textarea's text                               *)
(*   messages            the conversation list; the field by of a message  *)
(*                       is the identity of the call of handleSendMessage  *)
(*                       that created the object (0: loaded from the       *)
(*                       backend)                                          *)
(*   sessionId, isLoading                                                  *)
(*   abortControllerRef  the call whose AbortController the ref holds, or  *)
(*                       0 for null                                        *)
(*   calls               the calls of handleSendMessage: where each one    *)
(*                       stands (pc) and, while it runs, its locals buffer *)
(*                       and accumulatedContent and the bytes its decoder  *)
(*                       holds back (pending)                              *)
(*   crashed             an updater threw while React rendered             *)
(*   delivered           number of chunks read so far                      *)
(*   rejected            the last step was a submission that line 216      *)
(*                       turned away                                       *)
(***************************************************************************)
VARIABLES message, messages, sessionId, isLoading, abortControllerRef,
          calls, crashed, delivered, rejected

vars == <<message, messages, sessionId, isLoading, abortControllerRef,
          calls, crashed, delivered, rejected>>

CallIds == 1..MaxSends

NoController == 0

Last(s) == s[Len(s)]

Front(s) == SubSeq(s, 1, Len(s) - 1)

InFlight(i) == calls[i].pc \in {"sending", "streaming"}

\* number of requests issued so far
Issued == Cardinality({i \in CallIds : calls[i].pc # "unused"})

\* a call that is not running has no locals
Ended(pc) ==
    [pc |-> pc, pending |-> <<>>, buffer |-> <<>>, accumulatedContent |-> <<>>]

Init ==
    /\ message = <<>>
    /\ messages = <<>>
    /\ sessionId = NoSession
    /\ isLoading = FALSE
    /\ abortControllerRef = NoController
    /\ calls = [i \in CallIds |-> Ended("unused")]
    /\ crashed = FALSE
    /\ delivered = 0
    /\ rejected = FALSE

(***************************************************************************)
(* Pieces of handleSendMessage and handleCancel.                           *)
(***************************************************************************)
\* a catch without the test of err.name
Catch_NoAbortCheck(msgs, name, text, i) ==
    Append(msgs, [role |-> "error", content |-> ErrorHead \o text, by |-> i])

\* a catch that puts the error in the place of the message in progress
Catch_OverPartial(msgs, name, text, i) ==
    LET e == [role |-> "error", content |-> ErrorHead \o text, by |-> i] IN
    IF name = AbortErrorName THEN msgs
    ELSE IF msgs # <<>> /\ msgs[Len(msgs)].role = "assistant"
         THEN [msgs EXCEPT ![Len(msgs)] = e]
         ELSE Append(msgs, e)

\* catch (lines 315-325) of call i, as an update of the conversation
Catch(msgs, name, text, i) ==
    IF name # AbortErrorName
    THEN Append(msgs, [role |-> "error", content |-> ErrorHead \o text, by |-> i])
    ELSE msgs

\* a fetch that is not given the controller's signal
Aborts_NoSignal(c) == FALSE

\* controller.abort() on the controller of call c rejects a pending promise
\* of the call, which was given the signal on line 253
Aborts(c) == c # NoController /\ InFlight(c)

\* the updater of lines 292-301 and 305-314; last.role throws a TypeError
\* on an empty list
CanWrite(msgs) == msgs # <<>>

\* the updater without the normalization
WriteContent_Raw(msgs, acc) ==
    IF msgs[Len(msgs)].role = "assistant"
    THEN [msgs EXCEPT ![Len(msgs)].content = acc]
    ELSE msgs

WriteContent(msgs, acc) ==
    IF Last(msgs).role = "assistant"
    THEN [msgs EXCEPT ![Len(msgs)].content = preprocessText(acc)]
    ELSE msgs

\* a loop over parts without the second trim of line 287
RECURSIVE ProcessParts_RawData(_, _, _, _)
ProcessParts_RawData(parts, k, acc, msgs) ==
    IF k > Len(parts) THEN [acc |-> acc, msgs |-> msgs, threw |-> FALSE]
    ELSE IF ~StartsWith(Trim(parts[k]), DataMarker)
            \/ Trim(Slice(Trim(parts[k]), 5)) = DoneToken
         THEN ProcessParts_RawData(parts, k + 1, acc, msgs)
         ELSE IF msgs = <<>>
              THEN [acc |-> acc \o Slice(Trim(parts[k]), 5) \o <<"\n">>,
                    msgs |-> msgs, threw |-> TRUE]
              ELSE ProcessParts_RawData(parts, k + 1,
                       acc \o Slice(Trim(parts[k]), 5) \o <<"\n">>,
                       WriteContent(msgs,
                           acc \o Slice(Trim(parts[k]), 5) \o <<"\n">>))

\* a loop over parts without line 288
RECURSIVE ProcessParts_NoSentinel(_, _, _, _)
ProcessParts_NoSentinel(parts, k, acc, msgs) ==
    IF k > Len(parts) THEN [acc |-> acc, msgs |-> msgs, threw |-> FALSE]
    ELSE IF ~StartsWith(Trim(parts[k]), DataMarker)
         THEN ProcessParts_NoSentinel(parts, k + 1, acc, msgs)
         ELSE IF msgs = <<>>
              THEN [acc |-> acc \o Trim(Slice(Trim(parts[k]), 5)) \o <<"\n">>,
                    msgs |-> msgs, threw |-> TRUE]
              ELSE ProcessParts_NoSentinel(parts, k + 1,
                       acc \o Trim(Slice(Trim(parts[k]), 5)) \o <<"\n">>,
                       WriteContent(msgs,
                           acc \o Trim(Slice(Trim(parts[k]), 5)) \o <<"\n">>))

\* the loop over parts (lines 283-302) from part k on
RECURSIVE ProcessParts(_, _, _, _)
ProcessParts(parts, k, acc, msgs) ==
    IF k > Len(parts) THEN [acc |-> acc, msgs |-> msgs, threw |-> FALSE]
    ELSE LET trimmed == Trim(parts[k]) IN
         IF ~StartsWith(trimmed, DataMarker)
         THEN ProcessParts(parts, k + 1, acc, msgs)
         ELSE LET data == Trim(Slice(trimmed, 5)) IN
              IF data = DoneToken
              THEN ProcessParts(parts, k + 1, acc, msgs)
              ELSE LET acc2 == acc \o data \o <<"\n">> IN
                   IF ~CanWrite(msgs)
                   THEN [acc |-> acc2, msgs |-> msgs, threw |-> TRUE]
                   ELSE ProcessParts(parts, k + 1, acc2, WriteContent(msgs, acc2))

\* a handleCancel that removes or keeps the message and appends no marker
CancelUpdate_NoMarker(msgs) ==
    IF msgs # <<>> /\ msgs[Len(msgs)].role = "assistant"
       /\ Trim(msgs[Len(msgs)].content) = <<>>
    THEN SubSeq(msgs, 1, Len(msgs) - 1)
    ELSE msgs

\* a handleCancel that marks the message whatever its content
CancelUpdate_NoRemoval(msgs) ==
    IF msgs # <<>> /\ msgs[Len(msgs)].role = "assistant"
    THEN [msgs EXCEPT ![Len(msgs)].content = @ \o CancelMarker]
    ELSE msgs

\* the updater of handleCancel (lines 341-352)
CancelUpdate(msgs) ==
    IF msgs # <<>> /\ Last(msgs).role = "assistant"
    THEN IF Trim(Last(msgs).content) = <<>>
         THEN Front(msgs)
         ELSE [msgs EXCEPT ![Len(msgs)].content = @ \o CancelMarker]
    ELSE msgs

\* line 216 with the test of the raw text in the place of the cleaned one
Rejects_RawText(cleanedMessage) == message = <<>> \/ isLoading

\* line 216: the submission is turned away
Rejects(cleanedMessage) == cleanedMessage = <<>> \/ isLoading

(***************************************************************************)
(* The user's events.                                                      *)
(***************************************************************************)
\* onChange of the textarea (line 662), which is disabled while loading
setMessage(text) ==
    /\ ~crashed
    /\ ~isLoading
    /\ message' = text
    /\ rejected' = FALSE
    /\ UNCHANGED <<messages, sessionId, isLoading, abortControllerRef, calls,
                   crashed, delivered>>

\* handleSendMessage up to its first await (lines 212-254), with the catch
\* and finally of a call that line 237 aborts
handleSendMessage ==
    /\ ~crashed
    /\ LET cleanedMessage == preprocessText(message)
           id == Issued + 1
           old == abortControllerRef
       IN  IF Rejects(cleanedMessage)
           THEN /\ rejected' = TRUE
                /\ UNCHANGED <<message, messages, sessionId, isLoading,
                               abortControllerRef, calls, crashed, delivered>>
           ELSE /\ Issued < MaxSends
                /\ sessionId' = IF sessionId = NoSession
                                THEN [kind |-> "generated", n |-> id]
                                ELSE sessionId
                /\ messages' =
                       LET sent == Append(messages,
                                      [role |-> "user", content |-> cleanedMessage,
                                       by |-> id])
                       IN  IF Aborts(old)
                           THEN Catch(sent, AbortErrorName, AbortText, old)
                           ELSE sent
                /\ message' = <<>>
                /\ calls' = [i \in CallIds |->
                               IF i = id THEN [calls[i] EXCEPT !.pc = "sending"]
                               ELSE IF i = old /\ Aborts(old)
                                    THEN Ended("cancelled")
                                    ELSE calls[i]]
                \* the finally of the aborted call runs after lines 235
                \* and 240
                /\ isLoading' = ~Aborts(old)
                /\ abortControllerRef' = IF Aborts(old) THEN NoController ELSE id
                /\ rejected' = FALSE
                /\ UNCHANGED <<crashed, delivered>>

\* handleCancel (lines 335-353), the button's handler while loading
\* (line 700), with the catch and finally of the call it aborts
handleCancel ==
    /\ ~crashed
    /\ isLoading
    /\ LET c == abortControllerRef
           cancelled == CancelUpdate(messages)
       IN  /\ messages' = IF Aborts(c)
                          THEN Catch(cancelled, AbortErrorName, AbortText, c)
                          ELSE cancelled
           /\ calls' = IF Aborts(c)
                       THEN [calls EXCEPT ![c] = Ended("cancelled")]
                       ELSE calls
    /\ abortControllerRef' = NoController
    /\ isLoading' = FALSE
    /\ rejected' = FALSE
    /\ UNCHANGED <<message, sessionId, crashed, delivered>>

\* a handleNewChat without lines 170-172
handleNewChat_NoAbort ==
    /\ ~crashed
    /\ messages' = <<>>
    /\ sessionId' = NoSession
    /\ message' = <<>>
    /\ isLoading' = FALSE
    /\ rejected' = FALSE
    /\ UNCHANGED <<abortControllerRef, calls, crashed, delivered>>

\* handleNewChat (lines 164-174), with the catch and finally of the call it
\* aborts
handleNewChat ==
    /\ ~crashed
    /\ LET c == abortControllerRef
       IN  /\ messages' = IF Aborts(c)
                          THEN Catch(<<>>, AbortErrorName, AbortText, c)
                          ELSE <<>>
           /\ calls' = IF Aborts(c)
                       THEN [calls EXCEPT ![c] = Ended("cancelled")]
                       ELSE calls
           /\ abortControllerRef' = IF Aborts(c) THEN NoController ELSE c
    /\ sessionId' = NoSession
    /\ message' = <<>>
    /\ isLoading' = FALSE
    /\ rejected' = FALSE
    /\ UNCHANGED <<crashed, delivered>>

\* loadSession(id) when its response has arrived (lines 180-182)
loadSession(id) ==
    /\ ~crashed
    /\ messages' = StoredMessages(id)
    /\ sessionId' = [kind |-> "stored", n |-> id]
    /\ rejected' = FALSE
    /\ UNCHANGED <<message, isLoading, abortControllerRef, calls, crashed,
                   delivered>>

(***************************************************************************)
(* The transport's events: the continuations of handleSendMessage.         *)
(***************************************************************************)
\* a finally without line 328
Finally_KeepsController(i, pc) ==
    /\ calls' = [calls EXCEPT ![i] = Ended(pc)]
    /\ isLoading' = FALSE
    /\ UNCHANGED abortControllerRef

\* finally (lines 326-332) of call i, which ends in pc
Finally(i, pc) ==
    /\ calls' = [calls EXCEPT ![i] = Ended(pc)]
    /\ isLoading' = FALSE
    /\ abortControllerRef' = NoController

\* a placeholder that shows dots until the first payload
Placeholder_Dots(i) ==
    [role |-> "assistant", content |-> <<".", ".", ".">>, by |-> i]

\* the message of lines 260-265
Placeholder(i) == [role |-> "assistant", content |-> <<>>, by |-> i]

\* fetch resolves with an OK response: lines 256-274
ResponseOk(i) ==
    /\ ~crashed
    /\ calls[i].pc = "sending"
    /\ messages' = Append(messages, Placeholder(i))
    /\ calls' = [calls EXCEPT ![i].pc = "streaming"]
    /\ rejected' = FALSE
    /\ UNCHANGED <<message, sessionId, isLoading, abortControllerRef, crashed,
                   delivered>>

\* fetch rejects, or resolves with a status that is not OK (line 256)
FetchFails(i, text) ==
    /\ ~crashed
    /\ calls[i].pc = "sending"
    /\ messages' = Catch(messages, "Error", text, i)
    /\ Finally(i, "failed")
    /\ rejected' = FALSE
    /\ UNCHANGED <<message, sessionId, crashed, delivered>>

\* reader.read() yields a chunk: lines 274-303
ChunkArrives(i, chunk) ==
    /\ ~crashed
    /\ calls[i].pc = "streaming"
    /\ delivered < MaxChunks
    /\ LET decoded == decode(calls[i].pending, chunk)
           parts == SplitFrames(calls[i].buffer \o decoded.text)
           r == ProcessParts(Front(parts), 1, calls[i].accumulatedContent,
                             messages)
       IN  /\ messages' = r.msgs
           /\ crashed' = r.threw
           /\ calls' = [calls EXCEPT ![i] =
                           [@ EXCEPT !.pending = decoded.pending,
                                     !.buffer = Last(parts),
                                     !.accumulatedContent = r.acc]]
    /\ delivered' = delivered + 1
    /\ rejected' = FALSE
    /\ UNCHANGED <<message, sessionId, isLoading, abortControllerRef>>

\* an end of the body that decodes the residual buffer as a last frame
StreamEnd_Flush(i) ==
    /\ ~crashed
    /\ calls[i].pc = "streaming"
    /\ messages # <<>>
    /\ messages' = ProcessParts(<<calls[i].buffer>>, 1,
                                calls[i].accumulatedContent, messages).msgs
    /\ Finally(i, "completed")
    /\ rejected' = FALSE
    /\ UNCHANGED <<message, sessionId, crashed, delivered>>

\* reader.read() reports done: lines 275, 305-314 and the finally
StreamEnd(i) ==
    /\ ~crashed
    /\ calls[i].pc = "streaming"
    /\ IF CanWrite(messages)
       THEN /\ messages' = WriteContent(messages, calls[i].accumulatedContent)
            /\ UNCHANGED crashed
       ELSE /\ crashed' = TRUE
            /\ UNCHANGED messages
    /\ Finally(i, "completed")
    /\ rejected' = FALSE
    /\ UNCHANGED <<message, sessionId, delivered>>

\* reader.read() rejects with an error that is no abort
ReadFails(i) ==
    /\ ~crashed
    /\ calls[i].pc = "streaming"
    /\ messages' = Catch(messages, "TypeError", ReadFailure, i)
    /\ Finally(i, "failed")
    /\ rejected' = FALSE
    /\ UNCHANGED <<message, sessionId, crashed, delivered>>

Next ==
    \/ \E text \in InputTexts : setMessage(text)
    \/ handleSendMessage
    \/ handleCancel
    \/ handleNewChat
    \/ \E id \in StoredSessions : loadSession(id)
    \/ \E i \in CallIds : ResponseOk(i)
    \/ \E i \in CallIds : \E text \in {HttpError, NetworkError} : FetchFails(i, text)
    \/ \E i \in CallIds : \E chunk \in Chunks : ChunkArrives(i, chunk)
    \/ \E i \in CallIds : StreamEnd(i)
    \/ \E i \in CallIds : ReadFails(i)

Spec == Init /\ [][Next]_vars

(***************************************************************************)
(* The read loop alone: a behaviour starts where the response of the first *)
(* send has arrived (line 267), in a new session or in a stored one that   *)
(* was loaded before, and goes on with the chunks and the end of the body. *)
(***************************************************************************)
Streaming(session) ==
    /\ message = <<>>
    /\ sessionId = session
    /\ messages =
           (IF session.kind = "stored" THEN StoredMessages(session.n) ELSE <<>>)
               \o << [role |-> "user", content |-> <<"o", "k", "s">>, by |-> 1],
                      Placeholder(1) >>
    /\ isLoading = TRUE
    /\ abortControllerRef = 1
    /\ calls = [i \in CallIds |->
                   IF i = 1 THEN [Ended("unused") EXCEPT !.pc = "streaming"]
                   ELSE Ended("unused")]
    /\ crashed = FALSE
    /\ delivered = 0
    /\ rejected = FALSE

DecoderInit ==
    \E session \in {[kind |-> "generated", n |-> 1]}
                       \union {[kind |-> "stored", n |-> id] : id \in StoredSessions} :
        Streaming(session)

DecoderNext ==
    \/ \E i \in CallIds : \E chunk \in DecoderChunks : ChunkArrives(i, chunk)
    \/ \E i \in CallIds : StreamEnd(i)

DecoderSpec == DecoderInit /\ [][DecoderNext]_vars

(***************************************************************************)
(* The normalizer alone: a behaviour starts with a text typed into the     *)
(* textarea and goes on with its submission, which stores the normalized   *)
(* text in the conversation (lines 213-234), where the render normalizes   *)
(* it again (line 633).                                                    *)
(***************************************************************************)
NormInit ==
    /\ message \in TypedTexts
    /\ messages = <<>>
    /\ sessionId = NoSession
    /\ isLoading = FALSE
    /\ abortControllerRef = NoController
    /\ calls = [i \in CallIds |-> Ended("unused")]
    /\ crashed = FALSE
    /\ delivered = 0
    /\ rejected = FALSE

NormNext == handleSendMessage

NormSpec == NormInit /\ [][NormNext]_vars

\* what the render shows of a message (line 633)
Rendered(msg) == preprocessText(msg.content)

(***************************************************************************)
(* Properties.  The messages of a call are told from the others by their   *)
(* field by.                                                               *)
(***************************************************************************)
\* the indexes of the conversation that hold the message of the given role
\* created by call i
Own(i, role) ==
    {k \in DOMAIN messages : messages[k].by = i /\ messages[k].role = role}

OwnAfter(i, role) ==
    {k \in DOMAIN messages' : messages'[k].by = i /\ messages'[k].role = role}

TypeOK ==
    /\ isLoading \in BOOLEAN
    /\ crashed \in BOOLEAN
    /\ rejected \in BOOLEAN
    /\ delivered \in 0..MaxChunks
    /\ abortControllerRef \in CallIds \union {NoController}
    /\ \A i \in CallIds :
           calls[i].pc \in {"unused", "sending", "streaming", "completed",
                            "cancelled", "failed"}
    /\ \A k \in DOMAIN messages :
           /\ messages[k].role \in {"user", "assistant", "error"}
           /\ messages[k].by \in CallIds \union {0}

\* C1: at most one stream is in flight at any time, and while one is in
\* flight the loading flag is set and the ref holds its controller, so that
\* line 216 accepts a submission only when no send is in flight.
C1_OneStreamInFlight ==
    /\ \A i, j \in CallIds : InFlight(i) /\ InFlight(j) => i = j
    /\ \A i \in CallIds : InFlight(i) => isLoading /\ abortControllerRef = i

\* a second stream is in flight after the first one was aborted
C1_Witness ==
    \E i, j \in CallIds : InFlight(i) /\ calls[j].pc = "cancelled"

\* C2: when handleCancel runs while a stream is in flight whose assistant
\* message has non-blank content c, the content becomes c followed by the
\* marker, once; the call is cancelled, the loading flag is cleared, no
\* controller is held and no message is added.
C2_CancelAppendsMarker ==
    [][ \A i \in CallIds : \A k \in Own(i, "assistant") :
            ( /\ handleCancel
              /\ InFlight(i)
              /\ Trim(messages[k].content) # <<>> )
            => /\ messages' = [messages EXCEPT
                                  ![k].content = messages[k].content \o CancelMarker]
               /\ calls'[i].pc = "cancelled"
               /\ ~isLoading'
               /\ abortControllerRef' = NoController ]_vars

\* the stream that had shown "Hi" was cancelled
C2_Witness ==
    \E i \in CallIds : \E k \in Own(i, "assistant") :
        /\ calls[i].pc = "cancelled"
        /\ messages[k].content = <<"H", "i">> \o CancelMarker
        /\ ~isLoading
        /\ abortControllerRef = NoController

C4_NoFrameAfterCancel ==
    [][ \A i \in CallIds :
            /\ ((handleCancel \/ handleNewChat) /\ abortControllerRef = i)
               => calls'[i].pc = "cancelled"
            /\ calls[i].pc = "cancelled"
               => /\ calls'[i] = calls[i]
                  /\ \A k \in DOMAIN messages' :
                         messages'[k].by = i
                         => k \in DOMAIN messages /\ messages[k] = messages'[k]
      ]_vars

\* a stream reads a chunk while the marked message of a cancelled stream is
\* in the conversation
C4_Witness ==
    \E i, j \in CallIds : \E k \in Own(i, "assistant") :
        /\ calls[i].pc = "cancelled"
        /\ messages[k].content = <<"H", "i">> \o CancelMarker
        /\ calls[j].pc = "streaming"
        /\ calls[j].accumulatedContent # <<>>

\* C5: when a send fails with an error that is no abort, one message of
\* role error that carries the error's description is appended and the rest
\* of the conversation, the assistant message in progress included, keeps
\* its content.
C5_FailureAppendsOneError ==
    [][ \A i \in CallIds :
            (InFlight(i) /\ calls'[i].pc = "failed")
            => \E text \in {HttpError, NetworkError, ReadFailure} :
                   messages' = Append(messages,
                                   [role |-> "error",
                                    content |-> ErrorHead \o text,
                                    by |-> i]) ]_vars

\* a read failed after the assistant message had got content
C5_Witness ==
    \E i \in CallIds : \E k \in Own(i, "assistant") :
        /\ calls[i].pc = "failed"
        /\ messages[k].content = <<"H", "i">>
        /\ k + 1 = Len(messages)
        /\ messages[k + 1] = [role |-> "error",
                              content |-> ErrorHead \o ReadFailure, by |-> i]

\* C6: a cancellation is never shown as an error: every message of role
\* error in the conversation comes from a call that failed, none from a
\* call that was ended by abort.
C6_AbortIsNoError ==
    \A k \in DOMAIN messages :
        messages[k].role = "error"
        => messages[k].by \in CallIds /\ calls[messages[k].by].pc = "failed"

\* a cancelled call whose messages are in the conversation
C6_Witness ==
    \E i \in CallIds :
        /\ calls[i].pc = "cancelled"
        /\ Own(i, "user") # {}
        /\ Own(i, "assistant") # {}

\* C7: a submission made while a send is in flight, or whose text is empty
\* after normalization, changes nothing: not the conversation, the input
\* text, the session id, the loading flag or the held controller, and no
\* request is issued.
C7_RejectedSubmission ==
    [][ (handleSendMessage /\ (isLoading \/ preprocessText(message) = <<>>))
        => UNCHANGED <<messages, message, sessionId, isLoading,
                       abortControllerRef, calls>> ]_vars

\* a submission of whitespace was turned away and the text is still there
C7_Witness == rejected /\ ~isLoading /\ message = <<" ", "\n">>

RECURSIVE JoinPayloads(_, _)
JoinPayloads(frames, k) ==
    IF k > Len(frames) THEN <<>>
    ELSE LET f == Trim(frames[k])
             payload == Trim(Slice(f, 5))
         IN  (IF StartsWith(f, DataMarker) /\ payload # DoneToken
              THEN payload \o <<"\n">>
              ELSE <<>>) \o JoinPayloads(frames, k + 1)

\* C9: while a stream is streaming its assistant message shows the
\* normalization of the whole accumulated buffer, and a chunk adds to the
\* buffer the payloads it completes, each once and in arrival order.
C9_ContentIsNormalizedBuffer ==
    /\ [] \A i \in CallIds : \A k \in Own(i, "assistant") :
             calls[i].pc = "streaming"
             => messages[k].content = preprocessText(calls[i].accumulatedContent)
    /\ [][ \A i \in CallIds :
               (calls[i].pc = "streaming" /\ delivered' = delivered + 1 /\ ~crashed')
               => \E chunk \in Chunks :
                      LET parts == SplitFrames(calls[i].buffer
                                       \o decode(calls[i].pending, chunk).text) IN
                      /\ calls'[i].buffer = Last(parts)
                      /\ calls'[i].accumulatedContent =
                             calls[i].accumulatedContent
                                 \o JoinPayloads(Front(parts), 1) ]_vars

\* two payloads "Hi" were read: the message shows them joined by a space
C9_Witness ==
    \E i \in CallIds : \E k \in Own(i, "assistant") :
        /\ calls[i].pc = "streaming"
        /\ calls[i].accumulatedContent = <<"H", "i", "\n", "H", "i", "\n">>
        /\ messages[k].content = <<"H", "i", " ", "H", "i">>

\* C10: at end-of-data the stream is completed, the loading flag is cleared
\* and the controller released, and the assistant message keeps the content
\* set after the last payload, at that step and at every later one for as
\* long as it is in the conversation.
C10_CompletedKeepsContent ==
    [][ \A i \in CallIds :
            /\ (calls[i].pc = "streaming" /\ calls'[i].pc = "completed")
               => /\ ~isLoading'
                  /\ abortControllerRef' = NoController
                  /\ Own(i, "assistant") # {} => messages' = messages
            /\ calls[i].pc = "completed"
               => /\ calls'[i] = calls[i]
                  /\ \A k \in DOMAIN messages' :
                         messages'[k].by = i
                         => k \in DOMAIN messages /\ messages[k] = messages'[k]
      ]_vars

\* a stream that showed "Hi" is completed
C10_Witness ==
    \E i \in CallIds : \E k \in Own(i, "assistant") :
        /\ calls[i].pc = "completed"
        /\ messages[k].content = <<"H", "i">>
        /\ ~isLoading
        /\ abortControllerRef = NoController

(***************************************************************************)
(* The frame decoder as a function of the bytes read.                      *)
(***************************************************************************)
\* the payloads of the complete frames from frame k on, in the order of the
\* frames (lines 283-290)
RECURSIVE Payloads(_, _)
Payloads(frames, k) ==
    IF k > Len(frames) THEN <<>>
    ELSE LET trimmed == Trim(frames[k])
             data == Trim(Slice(trimmed, 5))
         IN  (IF StartsWith(trimmed, DataMarker) /\ data # DoneToken
              THEN <<data>>
              ELSE <<>>) \o Payloads(frames, k + 1)

\* what line 290 adds to accumulatedContent for the payloads from k on
RECURSIVE Lines(_, _)
Lines(payloads, k) ==
    IF k > Len(payloads) THEN <<>>
    ELSE payloads[k] \o <<"\n">> \o Lines(payloads, k + 1)

\* one turn of the read loop (lines 277-290) on the decoder d, which holds
\* the bytes and the text not yet consumed and the payloads yielded so far
Feed(d, value) ==
    LET parts == SplitFrames(d.buffer \o decode(d.pending, value).text) IN
    [pending |-> decode(d.pending, value).pending,
     buffer |-> Last(parts),
     payloads |-> d.payloads \o Payloads(Front(parts), 1)]

\* the decoder of call i, with no payload yielded yet
Reader(i) ==
    [pending |-> calls[i].pending, buffer |-> calls[i].buffer,
     payloads |-> <<>>]

\* the byte streams fed to the decoder of call i: a chunk, and for a
\* decoder that has read nothing two chunks in a row
Streams(i) ==
    IF calls[i].accumulatedContent = <<>> /\ calls[i].buffer = <<>>
       /\ calls[i].pending = <<>>
    THEN DecoderChunks \union {a \o b : a \in DecoderChunks, b \in DecoderChunks}
    ELSE DecoderChunks

\* C11: the payloads the decoder yields do not depend on the chunking: at
\* every state of a streaming call, for every byte stream and every place
\* to cut it in two (inside a frame, inside the separator, inside a
\* two-byte character), feeding the two pieces one after the other yields
\* the payloads, the residual text and the pending bytes that feeding the
\* stream whole yields; and a chunk that arrives changes the call as Feed
\* says.
C11_ChunkingIndependent ==
    /\ [] \A i \in CallIds :
             calls[i].pc = "streaming"
             => \A value \in Streams(i) : \A n \in 0..Len(value) :
                    Feed(Feed(Reader(i), SubSeq(value, 1, n)),
                         SubSeq(value, n + 1, Len(value)))
                        = Feed(Reader(i), value)
    /\ [][ \A i \in CallIds :
               (calls[i].pc = "streaming" /\ delivered' = delivered + 1 /\ ~crashed')
               => \E value \in DecoderChunks :
                      /\ calls'[i].pending = Feed(Reader(i), value).pending
                      /\ calls'[i].buffer = Feed(Reader(i), value).buffer
                      /\ calls'[i].accumulatedContent =
                             calls[i].accumulatedContent
                                 \o Lines(Feed(Reader(i), value).payloads, 1) ]_vars

\* a frame cut inside its two-byte character was read in two chunks: the
\* payload holds the character, and the text held back ends with the first
\* half of a separator
C11_Witness ==
    \E i \in CallIds :
        /\ calls[i].pc = "streaming"
        /\ calls[i].accumulatedContent = <<"a", "U+00E9", "\n">>
        /\ calls[i].buffer =
               <<"d", "a", "t", "a", ":", " ", "b", "U+00E9", " ", "\n">>

\* the frame begins with the marker
Marked(frame) == StartsWith(frame, DataMarker)

\* the complete frames that a read of value gives call i (lines 278-281)
CompleteFrames(i, value) ==
    Front(SplitFrames(calls[i].buffer \o decode(calls[i].pending, value).text))

\* C12: a complete frame whose text does not begin with "data:" yields no
\* payload and no error and stops nothing: a chunk adds to the accumulated
\* buffer the payloads of the frames that begin with the marker and of no
\* other frame, the conversation changes only when there is such a
\* payload, and the call goes on streaming.
C12_UnmarkedFrameDropped ==
    [][ \A i \in CallIds :
            (calls[i].pc = "streaming" /\ delivered' = delivered + 1)
            => \E value \in DecoderChunks :
                   LET marked == SelectSeq(CompleteFrames(i, value), Marked) IN
                   /\ calls'[i].pc = "streaming"
                   /\ ~crashed'
                      => calls'[i].accumulatedContent =
                             calls[i].accumulatedContent
                                 \o Lines(Payloads(marked, 1), 1)
                   /\ Payloads(marked, 1) = <<>>
                      => ~crashed' /\ messages' = messages ]_vars

\* the text of a frame after its marker (lines 284, 287)
Data(frame) == Trim(Slice(Trim(frame), 5))

\* the frame is emitted and its payload is not the termination token
Kept(frame) ==
    StartsWith(Trim(frame), DataMarker) /\ Data(frame) # DoneToken

\* the text of the frames from k on, each followed by "\n"
RECURSIVE DataLines(_, _)
DataLines(frames, k) ==
    IF k > Len(frames) THEN <<>>
    ELSE Data(frames[k]) \o <<"\n">> \o DataLines(frames, k + 1)

\* C13: the termination token is never appended to the accumulated buffer
\* and never shown: neither the buffer of a call nor a message of a call
\* holds "[DONE]", a chunk adds to the buffer the text of the emitted
\* frames other than the token's, those after the token's frame included,
\* and the call goes on streaming after it.
C13_DoneTokenDropped ==
    /\ [] \A i \in CallIds :
             /\ FindFrom(calls[i].accumulatedContent, 1, DoneToken) = 0
             /\ \A k \in DOMAIN messages :
                    messages[k].by = i
                    => FindFrom(messages[k].content, 1, DoneToken) = 0
    /\ [][ \A i \in CallIds :
               (calls[i].pc = "streaming" /\ delivered' = delivered + 1 /\ ~crashed')
               => \E value \in Chunks :
                      /\ calls'[i].pc = "streaming"
                      /\ calls'[i].accumulatedContent =
                             calls[i].accumulatedContent
                                 \o DataLines(SelectSeq(CompleteFrames(i, value),
                                                        Kept), 1) ]_vars

\* the chunk with the token was read, its frame after the token gave the
\* empty payload, and the frame of the next chunk was decoded
C13_Witness ==
    \E i \in CallIds : \E k \in Own(i, "assistant") :
        /\ calls[i].pc = "streaming"
        /\ calls[i].accumulatedContent = <<"\n", "H", "i", "\n">>
        /\ messages[k].content = <<"H", "i">>

\* the frame without its marker and without one space after the marker
MarkerStripped(frame) ==
    IF MatchAt(frame, 6, <<" ">>) THEN Slice(frame, 6) ELSE Slice(frame, 5)

\* the frames from k on stripped so, each followed by "\n"
RECURSIVE StrippedLines(_, _)
StrippedLines(frames, k) ==
    IF k > Len(frames) THEN <<>>
    ELSE MarkerStripped(frames[k]) \o <<"\n">> \o StrippedLines(frames, k + 1)

\* C14: the payload of an emitted frame is the frame without the marker
\* and without exactly one separator after it, every other character
\* kept: when every frame that a chunk completes and the loop emits begins
\* with the marker, the chunk adds to the accumulated buffer those frames
\* stripped so.
C14_PayloadKeepsWhitespace ==
    [][ \A i \in CallIds :
            (calls[i].pc = "streaming" /\ delivered' = delivered + 1 /\ ~crashed')
            => \E value \in DecoderChunks :
                   LET emitted == SelectSeq(CompleteFrames(i, value), Kept) IN
                   (\A k \in DOMAIN emitted : Marked(emitted[k]))
                   => calls'[i].accumulatedContent =
                          calls[i].accumulatedContent
                              \o StrippedLines(emitted, 1) ]_vars

\* C15: when the body ends while the residual buffer holds an unterminated
\* frame, the residual is discarded: the call is completed and the loading
\* flag cleared, no message is added and no role changes, the assistant
\* message of the call shows the payloads accumulated before and nothing of
\* the residual, and nothing is thrown unless the conversation is empty.
C15_ResidualDiscarded ==
    [][ \A i \in CallIds :
            (calls[i].pc = "streaming" /\ calls'[i].pc = "completed"
             /\ calls[i].buffer # <<>>)
            => /\ ~isLoading'
               /\ abortControllerRef' = NoController
               /\ messages # <<>> => ~crashed'
               /\ Len(messages') = Len(messages)
               /\ \A k \in DOMAIN messages : messages'[k].role = messages[k].role
               /\ \A k \in OwnAfter(i, "assistant") :
                      messages'[k].content =
                          preprocessText(calls[i].accumulatedContent) ]_vars

\* the body ended after the chunks "data:  a<C3>" and "<A9>\n\ndata:
\* b<C3><A9> \n": the message shows the first frame's payload and nothing of
\* the second frame, which no blank line ended
C15_Witness ==
    \E i \in CallIds : \E k \in Own(i, "assistant") :
        /\ calls[i].pc = "completed"
        /\ messages[k].content = <<"a", "U+00E9">>
        /\ ~isLoading
        /\ ~crashed
        /\ \A j \in DOMAIN messages : messages[j].role # "error"

\* C16: normalization is idempotent: the render, which normalizes the
\* stored content of a message again, shows every user message, whose
\* content is the normalization of the typed text, unchanged.
C16_Idempotent ==
    \A k \in DOMAIN messages :
        messages[k].role = "user" => Rendered(messages[k]) = messages[k].content

\* the text holds text of the shape of a placeholder token
HasToken(text) == \E j \in 1..Len(text) : LatexTokenEnd(text, j) # 0

\* the list latexPlaceholders at line 99 of a call with the given text
Table(text) == Protect(CleanUp(text)).latexPlaceholders

\* number of places of text where p occurs
Occurrences(text, p) == Cardinality({j \in 1..Len(text) : MatchAt(text, j, p)})

\* a submission was accepted: the normalized text is the content of the new
\* last message
Stored == Len(messages') = Len(messages) + 1

\* C17: restoration is complete: when the typed text holds no text of the
\* shape of a placeholder token, the normalized text holds no placeholder
\* token, and every entry of the table occurs in the text that line 100
\* gives as many times as the table holds it, once for an entry the table
\* holds once.
C17_RestorationComplete ==
    [][ (Stored /\ ~HasToken(message))
        => /\ ~HasToken(Last(messages').content)
           /\ \A k \in DOMAIN Table(message) :
                  Occurrences(Restored(Protect(CleanUp(message))),
                              Table(message)[k])
                      = Cardinality({j \in DOMAIN Table(message) :
                                        Table(message)[j] = Table(message)[k]})
      ]_vars

\* the texts of the shape of a placeholder token that text holds
TokensIn(text) ==
    {SubSeq(text, j, LatexTokenEnd(text, j) - 1) :
         j \in {i \in 1..Len(text) : LatexTokenEnd(text, i) # 0}}

\* C18: text of the shape of a placeholder token that the user typed is not
\* treated as a placeholder: the normalized text holds each such text at
\* least as many times as the typed text does, none of them replaced by an
\* entry of the table or by another value.
C18_TypedTokenKept ==
    [][ Stored
        => \A token \in TokensIn(message) :
               Occurrences(Last(messages').content, token)
                   >= Occurrences(message, token) ]_vars

\* the math spans of a text: what /(\$\$[\s\S]*?\$\$|\$[^\$]*?\$)/g matches
MathSpans(text) == ProtectLatex(text).latexPlaceholders

\* a span without its delimiters
Interior(span) ==
    IF Len(span) >= 4 /\ MatchAt(span, 1, <<"$", "$">>)
       /\ MatchAt(span, Len(span) - 1, <<"$", "$">>)
    THEN SubSeq(span, 3, Len(span) - 2)
    ELSE SubSeq(span, 2, Len(span) - 1)

\* C19: math is preserved: the interior of every math span of the typed
\* text occurs in the normalized text character for character.  Stated
\* for the texts in which no placeholder token was typed and none is left
\* by the restoration.
C19_MathPreserved ==
    [][ (Stored /\ ~HasToken(message) /\ ~HasToken(Last(messages').content))
        => \A k \in DOMAIN MathSpans(message) :
               FindFrom(Last(messages').content, 1,
                        Interior(MathSpans(message)[k])) # 0 ]_vars

\* "When x = 1 then y = 2"
MergedSentence ==
    <<"W", "h", "e", "n", " ", "x", " ", "=", " ", "1", " ",
      "t", "h", "e", "n", " ", "y", " ", "=", " ", "2">>

\* C20: lines 11 and 12 map "W h e n x = 1 , then y = 2" to exactly "When
\* x = 1 then y = 2": when that text is submitted, the step that merges
\* spaced-out letters followed by the step that drops the comma before
\* "then" gives the merged sentence, which is also the content stored.
C20_SpacedSentenceMerged ==
    [][ (Stored /\ message = SpacedSentence)
        => /\ DropComma(Defragment(message)) = MergedSentence
           /\ Last(messages').content = MergedSentence ]_vars

(***************************************************************************)
(* The scenario of two frames and a close.                                 *)
(***************************************************************************)
\* the decoder of call i has read nothing
Fresh(i) ==
    /\ calls[i].pending = <<>>
    /\ calls[i].buffer = <<>>
    /\ calls[i].accumulatedContent = <<>>

Hello == <<"H", "e", "l", "l", "o">>

HelloWorld == <<"H", "e", "l", "l", "o", " ", "w", "o", "r", "l", "d">>

\* accumulatedContent after the two frames
HelloWorldLines ==
    <<"H", "e", "l", "l", "o", "\n", "w", "o", "r", "l", "d", "\n">>

\* C21: streaming the frames "data: Hello\n\n" and "data:  world\n\n" and
\* then the end of the body leaves the assistant message of the stream with
\* the content "Hello world" and the stream completed: after the first
\* frame the message shows "Hello", after the second "Hello world", and the
\* end of the body completes the call, clears the loading flag and leaves
\* "Hello world" in the message.
C21_HelloWorld ==
    [][ \A i \in CallIds :
            /\ (Fresh(i) /\ ChunkArrives(i, HelloFrame))
               => /\ calls'[i].accumulatedContent = Hello \o <<"\n">>
                  /\ calls'[i].buffer = <<>>
                  /\ \A k \in OwnAfter(i, "assistant") :
                         messages'[k].content = Hello
            /\ (calls[i].accumulatedContent = Hello \o <<"\n">>
                /\ calls[i].buffer = <<>> /\ calls[i].pending = <<>>
                /\ ChunkArrives(i, WorldFrame))
               => /\ calls'[i].accumulatedContent = HelloWorldLines
                  /\ calls'[i].buffer = <<>>
                  /\ \A k \in OwnAfter(i, "assistant") :
                         messages'[k].content = HelloWorld
            /\ (calls[i].accumulatedContent = HelloWorldLines
                /\ calls[i].buffer = <<>> /\ StreamEnd(i))
               => /\ calls'[i].pc = "completed"
                  /\ ~isLoading'
                  /\ ~crashed'
                  /\ \A k \in OwnAfter(i, "assistant") :
                         messages'[k].content = HelloWorld ]_vars

\* the stream of the two frames is completed and its message, the last of
\* the conversation, shows "Hello world"
C21_Witness ==
    \E i \in CallIds :
        /\ calls[i].pc = "completed"
        /\ delivered = 2
        /\ Own(i, "assistant") = {Len(messages)}
        /\ Last(messages).content = HelloWorld
        /\ ~isLoading

\* the text and the table after line 28 of a call with the given text
BeforeFragments(text) == ProtectMalformed(ProtectLatex(CleanUp(text)))

\* the spans that line 41 protects in the text that stands outside math
\* delimiters after line 28: a variable u, du or dx and its fraction
VarFractions(text) ==
    ProtectFrac(Protected(BeforeFragments(text).text, <<>>)).latexPlaceholders

\* C22: a variable u, du or dx followed by a fraction outside math
\* delimiters is protected as one math span that holds the variable and the
\* fraction: the table of a submission holds every such span of the typed
\* text, so that the fraction is not an entry of its own.
C22_VarFractionOneSpan ==
    [][ Stored
        => \A k \in DOMAIN VarFractions(message) :
               \E n \in DOMAIN Table(message) :
                   Table(message)[n] = VarFractions(message)[k] ]_vars

\* text holds three line breaks in a row
HasBlankRun(text) == FindFrom(text, 1, <<"\n", "\n", "\n">>) # 0

\* the text at line 109 of a call with the given text, before the last
\* collapse
BeforeCollapse(text) ==
    PadDisplay(SpaceBefore(SpaceAfter(Restored(Protect(CleanUp(text))))))

\* C23: the output of preprocessText holds no run of three or more line
\* breaks, whatever the earlier steps inserted: neither the content of a
\* user message, which is the normalization of the typed text, nor what the
\* render shows of any message, which is the normalization of its content.
C23_NoBlankRun ==
    \A k \in DOMAIN messages :
        /\ messages[k].role = "user" => ~HasBlankRun(messages[k].content)
        /\ ~HasBlankRun(Rendered(messages[k]))

\* a user message is stored whose render has three line breaks in a row
\* before line 110: the heading spacing of line 85 added them
C23_Witness ==
    \E k \in DOMAIN messages :
        /\ messages[k].role = "user"
        /\ HasBlankRun(BeforeCollapse(messages[k].content))
        /\ ~HasBlankRun(Rendered(messages[k]))

\* C24: a stream writes only into the placeholder that was appended for it:
\* when a chunk or the end of the body is processed for call i, every
\* message that call i did not create, such as the messages of a
\* conversation that loadSession or New Chat put in the place of the one the
\* stream began in, stays as it is, and the updater does not throw on an
\* empty list.
C24_WritesOwnPlaceholderOnly ==
    [][ \A i \in CallIds :
            (calls[i].pc = "streaming"
             /\ (delivered' = delivered + 1 \/ calls'[i].pc = "completed"))
            => /\ ~crashed'
               /\ \A k \in DOMAIN messages :
                      messages[k].by # i
                      => k \in DOMAIN messages' /\ messages'[k] = messages[k]
      ]_vars

\* no send is in flight as far as the component knows
Idle == ~isLoading /\ abortControllerRef = NoController

\* C25: every accepted send returns the component to idle: while a call is
\* in flight the component can still take the event with which the
\* transport ends the call (no updater has thrown, so that end-of-data, an
\* error or the abort rejection is handled), and the step that ends the
\* call, as completed, cancelled or failed, leaves the loading flag false
\* and the ref without a controller.
C25_ReturnsToIdle ==
    /\ [] \A i \in CallIds : InFlight(i) => ~crashed
    /\ [][ \A i \in CallIds : (InFlight(i) /\ ~InFlight(i)') => Idle' ]_vars

(***************************************************************************)
(* The second frame decoder of the repository, EventSourcePolyfill of      *)
(* App.jsx.                                                                *)
(***************************************************************************)
\* the payloads given to onmessage for the complete frames from part k on
\* (App.jsx lines 38-42)
RECURSIVE onmessage(_, _)
onmessage(parts, k) ==
    IF k > Len(parts) THEN <<>>
    ELSE (IF StartsWith(parts[k], DataMarker)
          THEN <<Trim(Slice(parts[k], 5))>>
          ELSE <<>>) \o onmessage(parts, k + 1)

\* one turn of the read loop of EventSourcePolyfill (App.jsx lines 32-43) on
\* the decoder d
EventSourcePolyfill(d, value) ==
    LET parts == SplitFrames(d.buffer \o decode(d.pending, value).text) IN
    [pending |-> decode(d.pending, value).pending,
     buffer |-> Last(parts),
     payloads |-> d.payloads \o onmessage(Front(parts), 1)]

\* C26: the two frame decoders agree: a chunk that the read loop of Chat
\* processes leaves it with the pending bytes and the residual text that
\* EventSourcePolyfill keeps for the same chunk, and adds to the accumulated
\* buffer the payloads that EventSourcePolyfill gives to onmessage, the same
\* frames emitted and dropped and the same payload text.
C26_DecodersAgree ==
    [][ \A i \in CallIds :
            (calls[i].pc = "streaming" /\ delivered' = delivered + 1 /\ ~crashed')
            => \E value \in DecoderChunks :
                   /\ calls'[i].pending
                          = EventSourcePolyfill(Reader(i), value).pending
                   /\ calls'[i].buffer
                          = EventSourcePolyfill(Reader(i), value).buffer
                   /\ calls'[i].accumulatedContent =
                          calls[i].accumulatedContent
                              \o Lines(EventSourcePolyfill(Reader(i), value).payloads,
                                       1) ]_vars

====
